---- MODULE Spec2Model ----
(***************************************************************************)
(* Model of the LLM token optimizer: the Express relay                     *)
(* (backend/index.js) and the React client (frontend/src/App.tsx).         *)
(*                                                                         *)
(* Texts are sequences of characters.  Money is counted in millionths of   *)
(* a dollar, so the per-token prices INPUT_COST_PER_MTK / 1_000_000 and    *)
(* OUTPUT_COST_PER_MTK / 1_000_000 are the integers 3 and 15 (the code     *)
(* computes them in IEEE doubles; rounding is outside this model).         *)
(* The record field `timestamp` (Date.now()) is read by no operation of    *)
(* the program and is left out of the records.                             *)
(***************************************************************************)
EXTENDS Integers, Sequences, FiniteSets, TLC

\* ------------------------------------------------------------------ bounds
MaxLen == 5          \* longest prompt / rewritten text, in characters
MaxTok == 1          \* largest token count the remote API reports
MaxHistory == 2      \* longest session history explored
MaxLiveReqs == 3     \* live count requests issued per run
MaxInflight == 2     \* live count requests in flight at once
TickMs == 250        \* granularity of the clock, in ms

\* ------------------------------------------------------- program constants
INPUT_COST_PER_MTK == 3
OUTPUT_COST_PER_MTK == 15
INPUT_COST_PER_TOKEN == INPUT_COST_PER_MTK      \* millionths of a dollar
OUTPUT_COST_PER_TOKEN == OUTPUT_COST_PER_MTK    \* millionths of a dollar
DEBOUNCE_MS == 500

\* JavaScript null / undefined for a numeric slot
Null == -1000
Undefined == -1000

\* ------------------------------------------------------------------- texts
XText(n) == [i \in 1..n |-> "x"]
\* the empty text, a blank one, and one of MaxLen characters
Texts == {<<>>, <<" ">>, XText(MaxLen)}

RECURSIVE TrimStart(_)
TrimStart(t) == IF t # <<>> /\ Head(t) = " " THEN TrimStart(Tail(t)) ELSE t

RECURSIVE TrimEnd(_)
TrimEnd(t) ==
  IF t # <<>> /\ t[Len(t)] = " " THEN TrimEnd(SubSeq(t, 1, Len(t) - 1)) ELSE t

\* String.prototype.trim
Trim(t) == TrimEnd(TrimStart(t))

\* Math.ceil(a / b) for a >= 0, b > 0
Ceil(a, b) == (a + b - 1) \div b

Max(a, b) == IF a > b THEN a ELSE b
Min(a, b) == IF a < b THEN a ELSE b

\* x || 0 on a numeric slot (undefined and 0 are falsy)
OrZero(x) == IF x = Undefined \/ x = 0 THEN 0 ELSE x

\* =================================================================== RELAY
\* What the remote language-model API can answer to one POST.
TokenVals == 0..MaxTok
\* usage of an optimize call: both counts as billed
UsageVals == {[input_tokens |-> MaxTok, output_tokens |-> 1]}
NoUsage == [input_tokens |-> Undefined, output_tokens |-> Undefined]
\* Texts the remote model answers an optimize call with (<<>>: no text)
RewrittenTexts == {<<>>, XText(1)}
\* ok = FALSE: the POST rejects (network error, non-2xx);
\* hasUsage = FALSE: response.data.usage is missing;
\* text = <<>>: response.data.content?.[0]?.text is missing or empty.
RemoteFail == [ok |-> FALSE, hasUsage |-> FALSE, usage |-> NoUsage, text |-> <<>>]
RemoteCountOutcomes ==
  {RemoteFail} \cup
  {[ok |-> TRUE, hasUsage |-> FALSE, usage |-> NoUsage, text |-> <<>>]} \cup
  {[ok |-> TRUE, hasUsage |-> TRUE,
    usage |-> [input_tokens |-> n, output_tokens |-> 1], text |-> <<>>] :
      n \in TokenVals}
RemoteOptimizeOutcomes ==
  {RemoteFail} \cup
  {[ok |-> TRUE, hasUsage |-> FALSE, usage |-> NoUsage, text |-> t] :
      t \in RewrittenTexts} \cup
  {[ok |-> TRUE, hasUsage |-> TRUE, usage |-> u, text |-> t] :
      u \in UsageVals, t \in RewrittenTexts}

\* getTokenCount with the fallback rounded down instead of up
getTokenCount_floor(prompt, outcome) ==
  IF outcome.ok
  THEN IF outcome.hasUsage THEN OrZero(outcome.usage.input_tokens) ELSE 0
  ELSE Len(prompt) \div 4

\* getTokenCount(prompt) of the relay, given the remote outcome
getTokenCount(prompt, outcome) ==
  IF outcome.ok
  THEN IF outcome.hasUsage THEN OrZero(outcome.usage.input_tokens) ELSE 0
  ELSE Ceil(Len(prompt), 4)

\* Request payloads: req.body.prompt is a string, or missing / not a string
StringPayloads == {[type |-> "string", text |-> t] : t \in Texts}
Payloads == StringPayloads \cup
  {[type |-> "missing", text |-> <<>>], [type |-> "number", text |-> <<>>]}

\* !prompt || typeof prompt !== 'string'
InvalidPrompt(p) == p.type # "string" \/ p.text = <<>>

\* NaN: undefined - number in the savings field
NaN == -2000

VARIABLES
  \* ---- relay: the request being handled (requests are independent)
  relay,
  \* ---- client: React state of App
  prompt, origTokens, optimized, optTokens, usage, loading, sessionStats,
  error, countingTokens,
  \* ---- client: environment
  storage,      \* localStorage item "claude_usage_history"
  mounted,      \* the mount effects have run
  crashed,      \* a render threw and React removed the tree
  timers,       \* pending setTimeout callbacks of the live-count effect
  elapsed,      \* ms since the last change of the prompt (saturating)
  liveReqs,     \* live count requests in flight
  issued,       \* number of live count requests issued so far
  op,           \* the optimizePrompt call in progress
  \* ---- history variables used to state properties
  lastLive,     \* the most recently issued live count request
  burst,        \* live count requests issued since the current burst began
  edits,        \* changes of the prompt in the current burst that came at
                \* distinct times (2: several)
  prior,        \* what was displayed when the optimize in progress (or the
                \* one that failed last) was triggered
  countedFor,   \* the prompt text whose count request produced origTokens
                \* (orig) and the tc of the optimize in progress (tc);
                \* <<>>: none, no count is ever requested for the empty text
  lastOp        \* the step taken last

relayVars == <<relay>>
clientVars ==
  <<prompt, origTokens, optimized, optTokens, usage, loading, sessionStats,
    error, countingTokens, storage, mounted, crashed, timers, elapsed,
    liveReqs, issued, op, lastLive, burst, edits, prior, countedFor, lastOp>>
vars == <<relay, prompt, origTokens, optimized, optTokens, usage, loading,
          sessionStats, error, countingTokens, storage, mounted, crashed,
          timers, elapsed, liveReqs, issued, op, lastLive, burst, edits,
          prior, countedFor, lastOp>>

\* ------------------------------------------------------------ relay steps
NoResp ==
  [status |-> 0, error |-> "", tokens |-> Undefined, optimized |-> <<>>,
   usage |-> NoUsage, originalTokens |-> Undefined,
   optimizedTokens |-> Undefined, savings |-> Undefined]
RelayIdle ==
  [pc |-> "idle", path |-> "", payload |-> [type |-> "missing", text |-> <<>>],
   optimized |-> <<>>, usage |-> NoUsage, optimizedTokens |-> Undefined,
   calls |-> 0, countFailed |-> FALSE, resp |-> NoResp]

\* res.status(400).json({ error: 'Invalid prompt provided' })
BadRequest == [NoResp EXCEPT !.status = 400, !.error = "Invalid prompt provided"]

\* app.post('/api/count_tokens'): validation, then the remote call of
\* getTokenCount is dispatched
RelayCountTokens(payload) ==
  /\ relay.pc \in {"idle", "done"}
  /\ relay' =
       IF InvalidPrompt(payload)
       THEN [RelayIdle EXCEPT !.pc = "done", !.path = "count_tokens",
                              !.payload = payload, !.resp = BadRequest]
       ELSE [RelayIdle EXCEPT !.pc = "count", !.path = "count_tokens",
                              !.payload = payload, !.calls = 1]
  /\ UNCHANGED clientVars

\* getTokenCount settles; res.json({ tokens })
RelayCountTokensReturn(outcome) ==
  /\ relay.pc = "count"
  /\ relay' =
       [relay EXCEPT
          !.pc = "done",
          !.countFailed = ~outcome.ok,
          !.resp = [NoResp EXCEPT
                      !.status = 200,
                      !.tokens = getTokenCount(relay.payload.text, outcome)]]
  /\ UNCHANGED clientVars

\* app.post('/api/optimize_prompt'): validation, then the optimize call to
\* the remote API is dispatched
RelayOptimizePrompt(payload) ==
  /\ relay.pc \in {"idle", "done"}
  /\ relay' =
       IF InvalidPrompt(payload)
       THEN [RelayIdle EXCEPT !.pc = "done", !.path = "optimize_prompt",
                              !.payload = payload, !.resp = BadRequest]
       ELSE [RelayIdle EXCEPT !.pc = "optimize", !.path = "optimize_prompt",
                              !.payload = payload, !.calls = 1]
  /\ UNCHANGED clientVars

\* The optimize call settles.  On rejection the catch block answers 500; on
\* success `optimized` and `usage` are extracted and the first
\* getTokenCount(optimized) of the response literal is dispatched.
RelayOptimizeReturn(outcome) ==
  /\ relay.pc = "optimize"
  /\ relay' =
       IF ~outcome.ok
       THEN [relay EXCEPT
               !.pc = "done",
               !.resp = [NoResp EXCEPT !.status = 500,
                                       !.error = "Failed to optimize prompt"]]
       ELSE [relay EXCEPT
               !.pc = "optcount1",
               !.optimized = outcome.text,
               !.usage = IF outcome.hasUsage THEN outcome.usage ELSE NoUsage,
               !.calls = @ + 1]
  /\ UNCHANGED clientVars

\* optimizedTokens: await getTokenCount(optimized) settles; the second
\* getTokenCount(optimized), of the savings field, is dispatched
RelayOptimizedTokensReturn(outcome) ==
  /\ relay.pc = "optcount1"
  /\ relay' =
       [relay EXCEPT
          !.pc = "optcount2",
          !.optimizedTokens = getTokenCount(relay.optimized, outcome),
          !.countFailed = ~outcome.ok,
          !.calls = @ + 1]
  /\ UNCHANGED clientVars

\* The response body of a successful optimize, given the result of the
\* second getTokenCount(optimized)
OptimizeBody(r, second) ==
  [NoResp EXCEPT
     !.status = 200,
     !.optimized = r.optimized,
     !.usage = r.usage,
     !.originalTokens = r.usage.input_tokens,
     !.optimizedTokens = r.optimizedTokens,
     !.savings = IF r.usage.input_tokens = Undefined
                 THEN NaN
                 ELSE r.usage.input_tokens - second]

\* savings: usage.input_tokens - await getTokenCount(optimized) settles;
\* res.json(...)
RelaySavingsReturn(outcome) ==
  /\ relay.pc = "optcount2"
  /\ relay' =
       [relay EXCEPT
          !.pc = "done",
          !.resp = OptimizeBody(relay, getTokenCount(relay.optimized, outcome))]
  /\ UNCHANGED clientVars

RelayNext ==
  \/ \E p \in Payloads : RelayCountTokens(p)
  \/ \E o \in RemoteCountOutcomes : RelayCountTokensReturn(o)
  \/ \E p \in Payloads : RelayOptimizePrompt(p)
  \/ \E o \in RemoteOptimizeOutcomes : RelayOptimizeReturn(o)
  \/ \E o \in RemoteCountOutcomes : RelayOptimizedTokensReturn(o)
  \/ \E o \in RemoteCountOutcomes : RelaySavingsReturn(o)

\* What a client of the relay can get back for one request, the remote
\* outcomes being chosen by the environment.
CountTokensResponses(text) ==
  IF InvalidPrompt([type |-> "string", text |-> text])
  THEN {BadRequest}
  ELSE {[NoResp EXCEPT !.status = 200, !.tokens = getTokenCount(text, o)] :
          o \in RemoteCountOutcomes}

\* ================================================================== CLIENT
\* -------------------------------------------------- history and its storage
\* A JavaScript value held in sessionStats: an array of UsageStat records,
\* or whatever else JSON.parse produced.
JArr(items) == [kind |-> "array", items |-> items]
JOther(kind) == [kind |-> kind, items |-> <<>>]

\* An encoding that writes optTokens where origTokens belongs
EncodeStat_swapped(e) ==
  <<e.prompt, e.optimized, e.optTokens, e.origTokens, e.inputTokens,
    e.outputTokens, e.inputCost, e.outputCost, e.totalCost, e.savedTokens,
    e.savedCost>>

\* JSON text of one UsageStat: the values in the key order of the literal
EncodeStat(e) ==
  <<e.prompt, e.optimized, e.origTokens, e.optTokens, e.inputTokens,
    e.outputTokens, e.inputCost, e.outputCost, e.totalCost, e.savedTokens,
    e.savedCost>>
DecodeStat(t) ==
  [prompt |-> t[1], optimized |-> t[2], origTokens |-> t[3],
   optTokens |-> t[4], inputTokens |-> t[5], outputTokens |-> t[6],
   inputCost |-> t[7], outputCost |-> t[8], totalCost |-> t[9],
   savedTokens |-> t[10], savedCost |-> t[11]]

\* The item of localStorage: absent (getItem gives null), or a string that
\* is empty, unparsable, or the JSON text of a value.
Item(kind) == [kind |-> kind, items |-> <<>>]
\* JSON.stringify(stats)
Stringify(stats) ==
  IF stats.kind = "array"
  THEN [kind |-> "array",
        items |-> [i \in 1..Len(stats.items) |-> EncodeStat(stats.items[i])]]
  ELSE Item(stats.kind)
\* JSON.parse(s) of a parsable text
Parse(s) ==
  IF s.kind = "array"
  THEN JArr([i \in 1..Len(s.items) |-> DecodeStat(s.items[i])])
  ELSE JOther(s.kind)

\* loadUsageHistory()
loadUsageHistory(s) ==
  IF s.kind \in {"absent", "empty"} THEN JArr(<<>>)     \* if (!s) return []
  ELSE IF s.kind = "garbage" THEN JArr(<<>>)            \* catch { return [] }
  ELSE Parse(s)

\* saveUsageHistory(stats): the new content of the item
saveUsageHistory(stats) == Stringify(stats)

\* The render of App throws on sessionStats.reduce / .map / .length unless
\* sessionStats is an array.
RenderThrows(stats) == stats.kind # "array"

\* Contents of the item before the first start
InitialStorage ==
  {Item("absent"), Item("empty"), Item("garbage"), Item("null"),
   Item("number"), Item("object"), Item("array")}

\* ------------------------------------------------------------ client state
NoUsageFigures ==
  [isNull |-> TRUE, inputTokens |-> 0, outputTokens |-> 0, inputCost |-> 0,
   outputCost |-> 0, totalCost |-> 0, savedTokens |-> 0, savedCost |-> 0]
OpIdle == [pc |-> "idle", prompt |-> <<>>, tc |-> Null, data |-> NoResp]
NoLive == [id |-> 0, text |-> <<>>]
NoPrior == [optimized |-> <<>>, optTokens |-> Null, usage |-> NoUsageFigures]
NotCounted == [orig |-> <<>>, tc |-> <<>>]
Op(name, flag, text) == [name |-> name, flag |-> flag, text |-> text, id |-> 0]

Running == mounted /\ ~crashed

Init ==
  /\ relay = RelayIdle
  /\ prompt = <<>>
  /\ origTokens = Null
  /\ optimized = <<>>
  /\ optTokens = Null
  /\ usage = NoUsageFigures
  /\ loading = FALSE
  /\ sessionStats = JArr(<<>>)
  /\ error = ""
  /\ countingTokens = FALSE
  /\ storage \in InitialStorage
  /\ mounted = FALSE
  /\ crashed = FALSE
  /\ timers = {}
  /\ elapsed = DEBOUNCE_MS
  /\ liveReqs = {}
  /\ issued = 0
  /\ op = OpIdle
  /\ lastLive = NoLive
  /\ burst = 0
  /\ edits = 0
  /\ prior = NoPrior
  /\ countedFor = NotCounted
  /\ lastOp = Op("Init", FALSE, <<>>)

\* A fresh App: useState initial values, then the mount effects in order
\* (load the history, persist the initial [], clear the count of the empty
\* prompt), then the render with the loaded value and, unless it throws,
\* the persist effect of that render.
Start(name) ==
  LET loaded == loadUsageHistory(storage) IN
  /\ prompt' = <<>>
  /\ origTokens' = Null
  /\ optimized' = <<>>
  /\ optTokens' = Null
  /\ usage' = NoUsageFigures
  /\ loading' = FALSE
  /\ error' = ""
  /\ countingTokens' = FALSE
  /\ sessionStats' = loaded
  /\ crashed' = RenderThrows(loaded)
  /\ storage' = IF RenderThrows(loaded)
                THEN saveUsageHistory(JArr(<<>>))
                ELSE saveUsageHistory(loaded)
  /\ mounted' = TRUE
  /\ timers' = {}
  /\ elapsed' = DEBOUNCE_MS
  /\ liveReqs' = {}
  /\ issued' = 0
  /\ op' = OpIdle
  /\ lastLive' = NoLive
  /\ burst' = 0
  /\ edits' = 0
  /\ prior' = NoPrior
  /\ countedFor' = NotCounted
  /\ lastOp' = Op(name, RenderThrows(loaded), <<>>)
  /\ UNCHANGED relay

\* First start of the application
Mount == ~mounted /\ Start("Mount")

\* The page is reloaded: the old instance and its pending work are gone
Reload == mounted /\ Start("Reload")

\* ------------------------------------------------------------ live counting
\* The effect without its cleanup: the pending timer is left running
ClearTimer_none(ts, oldPrompt) == ts

\* Cleanup of the live-count effect: clearTimeout of the timer that the
\* effect run for the previous prompt created
ClearTimer(ts, oldPrompt) == {x \in ts : x.text # oldPrompt}

\* handlePromptChange, then the live-count effect for the new prompt
ChangePrompt(t) ==
  /\ Running
  /\ t # prompt
  /\ prompt' = t
  /\ error' = ""
  /\ origTokens' = IF t = <<>> THEN Null ELSE origTokens
  /\ countedFor' = IF t = <<>> THEN [countedFor EXCEPT !.orig = <<>>]
                    ELSE countedFor
  /\ timers' = ClearTimer(timers, prompt) \cup
               (IF t = <<>> THEN {} ELSE {[text |-> t, remaining |-> DEBOUNCE_MS]})
  /\ elapsed' = 0
  /\ burst' = IF elapsed >= DEBOUNCE_MS THEN 0 ELSE burst
  /\ edits' = IF elapsed >= DEBOUNCE_MS THEN 1
              ELSE IF elapsed > 0 THEN Min(edits + 1, 2)
              ELSE edits
  /\ lastOp' = Op("ChangePrompt", elapsed >= DEBOUNCE_MS, <<>>)
  /\ UNCHANGED <<relay, optimized, optTokens, usage, loading, sessionStats,
                 countingTokens, storage, mounted, crashed, liveReqs, issued,
                 op, lastLive, prior>>

\* TickMs of time pass
Tick ==
  /\ Running
  /\ elapsed < DEBOUNCE_MS \/ \E x \in timers : x.remaining > 0
  /\ elapsed' = Min(elapsed + TickMs, DEBOUNCE_MS)
  /\ timers' = {[x EXCEPT !.remaining = Max(@ - TickMs, 0)] : x \in timers}
  /\ lastOp' = Op("Tick", FALSE, <<>>)
  /\ UNCHANGED <<relay, prompt, origTokens, optimized, optTokens, usage,
                 loading, sessionStats, error, countingTokens, storage,
                 mounted, crashed, liveReqs, issued, op, lastLive, burst,
                 edits, prior, countedFor>>

\* The debounce timer fires: setCountingTokens(true) and the count request
\* for the text the effect captured is sent
TimerFire(x) ==
  /\ Running
  /\ x \in timers
  /\ x.remaining = 0
  /\ issued < MaxLiveReqs
  /\ Cardinality(liveReqs) < MaxInflight
  /\ timers' = timers \ {x}
  /\ countingTokens' = TRUE
  /\ issued' = issued + 1
  /\ liveReqs' = liveReqs \cup {[id |-> issued + 1, text |-> x.text]}
  /\ lastLive' = [id |-> issued + 1, text |-> x.text]
  /\ burst' = burst + 1
  /\ lastOp' = Op("TimerFire", FALSE, x.text)
  /\ UNCHANGED <<relay, prompt, origTokens, optimized, optTokens, usage,
                 loading, sessionStats, error, storage, mounted, crashed,
                 elapsed, op, edits, prior, countedFor>>

\* What the client's fetch of /count_tokens can settle with: the relay's
\* answer, or status 0 when the fetch itself rejects
FetchFailed == NoResp
CountFetchResults(text) == {FetchFailed} \cup CountTokensResponses(text)

\* A live count request settles: setOrigTokens(tc) unless getTokenCount
\* threw, then setCountingTokens(false)
LiveCountResponse(r, resp) ==
  /\ Running
  /\ r \in liveReqs
  /\ liveReqs' = liveReqs \ {r}
  /\ origTokens' = IF resp.status = 200 THEN resp.tokens ELSE origTokens
  /\ countedFor' = IF resp.status = 200
                    THEN [countedFor EXCEPT !.orig = r.text]
                    ELSE countedFor
  /\ countingTokens' = FALSE
  /\ lastOp' = [Op("LiveCountResponse", resp.status = 200, r.text)
                  EXCEPT !.id = r.id]
  /\ UNCHANGED <<relay, prompt, optimized, optTokens, usage, loading,
                 sessionStats, error, storage, mounted, crashed, timers,
                 elapsed, issued, op, lastLive, burst, edits, prior>>

\* ------------------------------------------------- optimize and accounting
\* What the client's fetch of /optimize_prompt can settle with
OptimizeResponses(text) ==
  IF InvalidPrompt([type |-> "string", text |-> text])
  THEN {BadRequest}
  ELSE {[NoResp EXCEPT !.status = 500, !.error = "Failed to optimize prompt"]}
       \cup
       {OptimizeBody(
          [optimized |-> o.text,
           usage |-> IF o.hasUsage THEN o.usage ELSE NoUsage,
           optimizedTokens |-> getTokenCount(o.text, c1)],
          getTokenCount(o.text, c2)) :
          o \in RemoteOptimizeOutcomes \ {RemoteFail},
          c1 \in RemoteCountOutcomes, c2 \in RemoteCountOutcomes}
OptimizeFetchResults(text) == {FetchFailed} \cup OptimizeResponses(text)

\* The catch block without setError
OptimizeFails_silent(msg) ==
  /\ error' = ""
  /\ loading' = FALSE
  /\ op' = OpIdle
  /\ countedFor' = [countedFor EXCEPT !.tc = <<>>]
  /\ UNCHANGED prior

\* catch (e) { setError(e.message || ...) }; setLoading(false)
OptimizeFails(msg) ==
  /\ error' = msg
  /\ loading' = FALSE
  /\ op' = OpIdle
  /\ countedFor' = [countedFor EXCEPT !.tc = <<>>]
  /\ UNCHANGED prior

\* The figures with a negative saving clamped to zero
Figures_clamped(tc, data) ==
  LET inputTokens == OrZero(data.usage.input_tokens)
      outputTokens == OrZero(data.usage.output_tokens)
      inputCost == inputTokens * INPUT_COST_PER_TOKEN
      outputCost == outputTokens * OUTPUT_COST_PER_TOKEN
      savedTokens == Max(tc - OrZero(data.optimizedTokens), 0)
  IN [isNull |-> FALSE,
      inputTokens |-> inputTokens,
      outputTokens |-> outputTokens,
      inputCost |-> inputCost,
      outputCost |-> outputCost,
      totalCost |-> inputCost + outputCost,
      savedTokens |-> savedTokens,
      savedCost |-> savedTokens * INPUT_COST_PER_TOKEN]

\* The cost figures of one optimize call (App.tsx, "Calculate API usage
\* and cost"), from the count tc and the relay's answer data
Figures(tc, data) ==
  LET inputTokens == OrZero(data.usage.input_tokens)
      outputTokens == OrZero(data.usage.output_tokens)
      inputCost == inputTokens * INPUT_COST_PER_TOKEN
      outputCost == outputTokens * OUTPUT_COST_PER_TOKEN
      savedTokens == tc - OrZero(data.optimizedTokens)
  IN [isNull |-> FALSE,
      inputTokens |-> inputTokens,
      outputTokens |-> outputTokens,
      inputCost |-> inputCost,
      outputCost |-> outputCost,
      totalCost |-> inputCost + outputCost,
      savedTokens |-> savedTokens,
      savedCost |-> savedTokens * INPUT_COST_PER_TOKEN]

\* const entry: UsageStat = {...}
Entry(p, tc, data) ==
  LET f == Figures(tc, data) IN
  [prompt |-> p,
   optimized |-> data.optimized,
   origTokens |-> tc,
   optTokens |-> OrZero(data.optimizedTokens),
   inputTokens |-> f.inputTokens,
   outputTokens |-> f.outputTokens,
   inputCost |-> f.inputCost,
   outputCost |-> f.outputCost,
   totalCost |-> f.totalCost,
   savedTokens |-> f.savedTokens,
   savedCost |-> f.savedCost]

\* The entry put in front: [entry, ...prev]
AppendEntry_front(prev, entry) == JArr(<<entry>> \o prev.items)

\* setSessionStats((prev) => [...prev, entry])
AppendEntry(prev, entry) == JArr(Append(prev.items, entry))

\* The tail of the try block: setUsage, the append, the persist effect of
\* the render that follows, setLoading(false)
OptimizeCompletes(tc, data) ==
  /\ usage' = Figures(tc, data)
  /\ sessionStats' = AppendEntry(sessionStats, Entry(op.prompt, tc, data))
  /\ storage' = saveUsageHistory(sessionStats')
  /\ loading' = FALSE
  /\ op' = OpIdle
  /\ countedFor' = [countedFor EXCEPT !.tc = <<>>]
  /\ prior' = NoPrior

\* x || ... on origTokens (null and 0 are falsy)
Truthy(x) == x # Null /\ x # 0

\* optimizePrompt up to its first await.  The button is disabled while
\* loading or while the prompt is blank.  With a truthy origTokens there
\* is no await before the fetch, and setOrigTokens(tc) sets the value
\* origTokens already has.
OptimizeClick ==
  /\ Running
  /\ ~loading
  /\ Trim(prompt) # <<>>
  /\ Len(sessionStats.items) < MaxHistory
  /\ loading' = TRUE
  /\ error' = ""
  /\ optimized' = <<>>
  /\ optTokens' = Null
  /\ usage' = NoUsageFigures
  /\ IF Truthy(origTokens)
     THEN op' = [pc |-> "optimize", prompt |-> prompt, tc |-> origTokens,
                 data |-> NoResp]
     ELSE op' = [pc |-> "count", prompt |-> prompt, tc |-> Null,
                 data |-> NoResp]
  /\ prior' = [optimized |-> optimized, optTokens |-> optTokens,
               usage |-> usage]
  /\ countedFor' = [countedFor EXCEPT
                      !.tc = IF Truthy(origTokens) THEN countedFor.orig
                             ELSE <<>>]
  /\ lastOp' = Op("OptimizeClick", Truthy(origTokens), <<>>)
  /\ UNCHANGED <<relay, prompt, origTokens, sessionStats, countingTokens,
                 storage, mounted, crashed, timers, elapsed, liveReqs, issued,
                 lastLive, burst, edits>>

\* await getTokenCount(prompt) settles: setOrigTokens(tc) and the optimize
\* request is sent, or the catch block runs
OptimizeCountReturn(resp) ==
  /\ Running
  /\ op.pc = "count"
  /\ IF resp.status = 200
     THEN /\ origTokens' = resp.tokens
          /\ op' = [op EXCEPT !.pc = "optimize", !.tc = resp.tokens]
          /\ countedFor' = [orig |-> op.prompt, tc |-> op.prompt]
          /\ UNCHANGED <<error, loading, prior>>
     ELSE /\ OptimizeFails("Failed to count tokens")
          /\ UNCHANGED origTokens
  /\ lastOp' = Op("OptimizeCountReturn", resp.status # 200, <<>>)
  /\ UNCHANGED <<relay, prompt, optimized, optTokens, usage, sessionStats,
                 countingTokens, storage, mounted, crashed, timers, elapsed,
                 liveReqs, issued, lastLive, burst, edits>>

\* The fetch of /optimize_prompt settles
OptimizeReturn(resp) ==
  /\ Running
  /\ op.pc = "optimize"
  /\ IF resp.status # 200
       THEN \* fetch rejected, or !resp.ok
            /\ OptimizeFails(IF resp.status = 0 THEN "Failed to fetch"
                             ELSE resp.error)
            /\ UNCHANGED <<optimized, optTokens, usage, sessionStats, storage>>
     ELSE IF resp.optimized = <<>>
       THEN /\ OptimizeFails("No optimized prompt received")
            /\ UNCHANGED <<optimized, optTokens, usage, sessionStats, storage>>
     ELSE IF Truthy(resp.optimizedTokens)
       THEN /\ optimized' = resp.optimized
            /\ optTokens' = resp.optimizedTokens
            /\ OptimizeCompletes(op.tc, resp)
            /\ UNCHANGED error
     ELSE \* data.optimizedTokens is 0: await getTokenCount(data.optimized)
            /\ optimized' = resp.optimized
            /\ op' = [op EXCEPT !.pc = "optcount", !.data = resp]
            /\ UNCHANGED <<optTokens, usage, sessionStats, storage, error,
                           loading, prior, countedFor>>
  /\ lastOp' = Op("OptimizeReturn", resp.status # 200 \/ resp.optimized = <<>>,
                  IF resp.status = 200 /\ resp.optimized # <<>>
                       /\ Truthy(resp.optimizedTokens)
                  THEN countedFor.tc ELSE <<>>)
  /\ UNCHANGED <<relay, prompt, origTokens, countingTokens, mounted, crashed, timers,
                 elapsed, liveReqs, issued, lastLive, burst, edits>>

\* await getTokenCount(data.optimized) settles: setOptTokens and the rest
\* of the try block, or the catch block
OptimizedCountReturn(resp) ==
  /\ Running
  /\ op.pc = "optcount"
  /\ IF resp.status = 200
     THEN /\ optTokens' = resp.tokens
          /\ OptimizeCompletes(op.tc, op.data)
          /\ UNCHANGED error
     ELSE /\ OptimizeFails("Failed to count tokens")
          /\ UNCHANGED <<optTokens, usage, sessionStats, storage>>
  /\ lastOp' = Op("OptimizedCountReturn", resp.status # 200,
                  IF resp.status = 200 THEN countedFor.tc ELSE <<>>)
  /\ UNCHANGED <<relay, prompt, origTokens, optimized, countingTokens,
                 mounted, crashed, timers, elapsed, liveReqs, issued,
                 lastLive, burst, edits>>

\* ----------------------------------------------------------------- history
\* Clear History without the confirmation
ClearHistory_unconfirmed(confirmed) ==
  /\ Running
  /\ Len(sessionStats.items) # 0
  /\ sessionStats' = JArr(<<>>)
  /\ storage' = saveUsageHistory(sessionStats')
  /\ lastOp' = Op("ClearHistory", confirmed, <<>>)
  /\ UNCHANGED <<relay, prompt, origTokens, optimized, optTokens, usage,
                 loading, error, countingTokens, mounted, crashed, timers,
                 elapsed, liveReqs, issued, op, lastLive, burst, edits, prior,
                 countedFor>>

\* Clear History onClick (disabled on an empty history), then the persist
\* effect when the state changed
ClearHistory(confirmed) ==
  /\ Running
  /\ Len(sessionStats.items) # 0
  /\ sessionStats' = IF confirmed THEN JArr(<<>>) ELSE sessionStats
  /\ storage' = IF confirmed THEN saveUsageHistory(sessionStats') ELSE storage
  /\ lastOp' = Op("ClearHistory", confirmed, <<>>)
  /\ UNCHANGED <<relay, prompt, origTokens, optimized, optTokens, usage,
                 loading, error, countingTokens, mounted, crashed, timers,
                 elapsed, liveReqs, issued, op, lastLive, burst, edits, prior,
                 countedFor>>

\* ------------------------------------------------- session totals and chart
\* stats.reduce((sum, e) => sum + e.totalCost, 0)
RECURSIVE ReduceTotalCost(_)
ReduceTotalCost(items) ==
  IF items = <<>> THEN 0
  ELSE ReduceTotalCost(SubSeq(items, 1, Len(items) - 1))
         + items[Len(items)].totalCost

\* const sessionTotalCost
sessionTotalCost(items) == ReduceTotalCost(items)

\* The chart with slice(0, i) in place of slice(0, i + 1)
usageGraphData_short(items) ==
  [k \in 1..Len(items) |->
     [x |-> k, y |-> ReduceTotalCost(SubSeq(items, 1, k - 1))]]

\* const usageGraphData: the point of the record at index i = k - 1 is
\* { x: i + 1, y: sessionStats.slice(0, i + 1).reduce(...) }
usageGraphData(items) ==
  [k \in 1..Len(items) |->
     [x |-> k, y |-> ReduceTotalCost(SubSeq(items, 1, k))]]

\* The results the pending fetch of optimizePrompt can settle with
Settled(pc, results) == IF op.pc = pc THEN results ELSE {}

\* Live counting: the debounced effect and its count requests
LiveNext ==
  \/ Mount
  \/ Reload
  \/ \E t \in Texts : ChangePrompt(t)
  \/ Tick
  \/ \E x \in timers : TimerFire(x)
  \/ \E r \in liveReqs : \E resp \in CountFetchResults(r.text) :
       LiveCountResponse(r, resp)

\* Optimize, cost accounting and the history
Next ==
  \/ Mount
  \/ Reload
  \/ \E t \in Texts : ChangePrompt(t)
  \/ OptimizeClick
  \/ \E resp \in Settled("count", CountFetchResults(op.prompt)) :
       OptimizeCountReturn(resp)
  \/ \E resp \in Settled("optimize", OptimizeFetchResults(op.prompt)) :
       OptimizeReturn(resp)
  \/ \E resp \in Settled("optcount", CountFetchResults(op.data.optimized)) :
       OptimizedCountReturn(resp)
  \/ \E c \in BOOLEAN : ClearHistory(c)

\* Live counting together with the first optimize of a session: what the
\* count stored in the record is a count of
CountNext ==
  \/ Mount
  \/ \E t \in Texts : ChangePrompt(t)
  \/ Tick
  \/ \E x \in timers : TimerFire(x)
  \/ \E r \in liveReqs : \E resp \in CountFetchResults(r.text) :
       LiveCountResponse(r, resp)
  \/ sessionStats.items = <<>> /\ OptimizeClick
  \/ \E resp \in Settled("count", CountFetchResults(op.prompt)) :
       OptimizeCountReturn(resp)
  \/ \E resp \in Settled("optimize", OptimizeFetchResults(op.prompt)) :
       OptimizeReturn(resp)
  \/ \E resp \in Settled("optcount", CountFetchResults(op.data.optimized)) :
       OptimizedCountReturn(resp)

Spec == Init /\ [][Next]_vars
CountSpec == Init /\ [][CountNext]_vars
LiveSpec == Init /\ [][LiveNext]_vars
RelaySpec == Init /\ [][RelayNext]_vars

\* ============================================================== PROPERTIES
\* C1: a Count Tokens response is applied to the displayed count only if it
\* belongs to the most recently issued live count request and that request
\* was for the current prompt text; a response for superseded text is
\* discarded.
C1_StaleResponseDiscarded ==
  (lastOp.name = "LiveCountResponse" /\ lastOp.flag)
    => (lastOp.text = prompt /\ lastOp.id = issued)

\* C2: changes of the prompt that follow one another by less than the
\* debounce window, ending on a non-empty text, lead to exactly one live
\* count request: at most one request is issued per burst, the one issued
\* carries the final text and is sent only once the text has been stable
\* for the whole window, until then it is scheduled for the current text,
\* and no timer is left for an intermediate text.
C2_OneRequestPerBurst ==
  /\ burst <= 1
  /\ burst = 1 =>
       /\ lastLive.text = prompt
       /\ prompt # <<>>
       /\ elapsed >= DEBOUNCE_MS
  /\ \A x \in timers :
       x.text = prompt /\ x.remaining = Max(DEBOUNCE_MS - elapsed, 0)
  /\ (Running /\ prompt # <<>> /\ edits > 0 /\ burst = 0) => timers # {}

\* C2 witness: after several changes inside one window the single request
\* for the final text has been sent
C2_Witness ==
  /\ lastOp.name = "TimerFire"
  /\ edits = 2
  /\ burst = 1
  /\ lastLive.text = prompt

\* C3: a successful Optimize Prompt request makes exactly two calls to the
\* remote API.
C3_TwoRemoteCalls ==
  (relay.pc = "done" /\ relay.path = "optimize_prompt" /\ relay.resp.status = 200)
    => relay.calls = 2

\* C4: for a non-empty string prompt Count Tokens answers 200 with a
\* non-negative integer, and when the remote call failed the count is the
\* least integer that is at least length / 4.
C4_CountNeverFails ==
  (relay.pc = "done" /\ relay.path = "count_tokens"
     /\ relay.payload.type = "string" /\ relay.payload.text # <<>>)
    => /\ relay.resp.status = 200
       /\ relay.resp.tokens \in Nat
       /\ relay.countFailed =>
            /\ 4 * relay.resp.tokens >= Len(relay.payload.text)
            /\ 4 * (relay.resp.tokens - 1) < Len(relay.payload.text)

\* C4 witness: the remote call failed for a prompt of MaxLen characters
C4_Witness ==
  /\ relay.pc = "done"
  /\ relay.path = "count_tokens"
  /\ relay.countFailed
  /\ Len(relay.payload.text) = MaxLen
  /\ relay.resp.status = 200
  /\ relay.resp.tokens > 0

\* The step just taken ended an optimizePrompt call in its catch block
OptimizeReturns == {"OptimizeCountReturn", "OptimizeReturn", "OptimizedCountReturn"}
OptimizeFailed == lastOp.name \in OptimizeReturns /\ lastOp.flag
\* The step just taken ended an optimizePrompt call with an appended record
OptimizeSucceeded ==
  lastOp.name \in OptimizeReturns /\ ~lastOp.flag /\ op.pc = "idle"

\* C5 (as claimed): when optimize fails the error is surfaced, the history
\* is not touched, and the displayed optimized prompt, optimized-token count
\* and usage figures are those displayed before the trigger.
C5_PriorStateUntouched ==
  [][OptimizeFailed' =>
       /\ error' # ""
       /\ sessionStats' = sessionStats
       /\ optimized' = prior'.optimized
       /\ optTokens' = prior'.optTokens
       /\ usage' = prior'.usage]_vars

\* C5 (amended): when optimize fails the error is surfaced, the loading
\* flag is dropped, the failing step leaves the history and its stored copy
\* as they were, and the output of the previous optimize is not restored:
\* the optimized-token count and the usage figures stay cleared, and the
\* displayed optimized prompt is empty or the text just received.
C5_FailureKeepsHistory ==
  [][OptimizeFailed' =>
       /\ error' # ""
       /\ ~loading'
       /\ sessionStats' = sessionStats
       /\ storage' = storage
       /\ optTokens' = Null
       /\ usage' = NoUsageFigures
       /\ optimized' \in {<<>>, op.data.optimized}]_vars

\* C5 witness: an optimize failed while a record and a previous output existed
C5_Witness ==
  /\ OptimizeFailed
  /\ Len(sessionStats.items) > 0
  /\ ~prior.usage.isNull
  /\ prior.optimized # <<>>

\* C6: while the application runs the stored item is the serialization of
\* the in-memory history, and a reload of the running application gives
\* back the same in-memory history and leaves the stored item as it was.
C6_HistorySurvivesReload ==
  [][/\ Running' => storage' = Stringify(sessionStats')
     /\ (Running /\ lastOp'.name = "Reload") =>
          /\ Running'
          /\ sessionStats' = sessionStats
          /\ storage' = storage]_vars

\* C6 witness: a history of two records has been reloaded
C6_Witness ==
  /\ lastOp.name = "Reload"
  /\ Running
  /\ Len(sessionStats.items) >= 2
  /\ storage.kind = "array"
  /\ Len(storage.items) = Len(sessionStats.items)

\* C7: whatever the stored item holds that is not a serialized array, the
\* start of the application gives an empty history and a working
\* application.
C7_LoadNeverFatal ==
  [][(lastOp'.name \in {"Mount", "Reload"} /\ storage.kind # "array") =>
       /\ ~crashed'
       /\ sessionStats' = JArr(<<>>)]_vars

\* C8: a confirmed clear leaves zero records and an empty stored array, a
\* declined one leaves history and stored item as they were, and a
\* non-empty history becomes empty by no other step.
C8_ClearNeedsConfirmation ==
  [][/\ (lastOp'.name = "ClearHistory" /\ lastOp'.flag) =>
          /\ Len(sessionStats'.items) = 0
          /\ sessionStats'.kind = "array"
          /\ storage' = [kind |-> "array", items |-> <<>>]
     /\ (lastOp'.name = "ClearHistory" /\ ~lastOp'.flag) =>
          /\ sessionStats' = sessionStats
          /\ storage' = storage
     /\ (Len(sessionStats.items) > 0 /\ Len(sessionStats'.items) = 0) =>
          (lastOp'.name = "ClearHistory" /\ lastOp'.flag)]_vars

\* C8 witness: a confirmed clear has emptied a history
C8_Witness ==
  /\ lastOp.name = "ClearHistory"
  /\ lastOp.flag
  /\ Len(sessionStats.items) = 0
  /\ storage = [kind |-> "array", items |-> <<>>]

\* C9: every step of the running client leaves the history as it is,
\* appends one record at its end (and then is the successful end of an
\* optimize call), or empties it (and then is a confirmed clear).
C9_AppendOnly ==
  [][(Running /\ Running') =>
       \/ sessionStats' = sessionStats
       \/ /\ OptimizeSucceeded'
          /\ Len(sessionStats'.items) = Len(sessionStats.items) + 1
          /\ SubSeq(sessionStats'.items, 1, Len(sessionStats.items))
               = sessionStats.items
       \/ /\ lastOp'.name = "ClearHistory" /\ lastOp'.flag
          /\ sessionStats' = JArr(<<>>)]_vars

\* C9 witness: a record has been appended behind a different one
C9_Witness ==
  /\ OptimizeSucceeded
  /\ Len(sessionStats.items) >= 2
  /\ sessionStats.items[1] # sessionStats.items[2]

\* C10: every record of the history has input cost = input tokens x 3,
\* output cost = output tokens x 15 (millionths of a dollar), total cost =
\* input cost + output cost, tokens saved = original - optimized count,
\* negative or not, and cost saved = tokens saved x 3.
C10_RecordArithmetic ==
  sessionStats.kind = "array" =>
    \A i \in 1..Len(sessionStats.items) :
      LET e == sessionStats.items[i] IN
      /\ e.inputCost = e.inputTokens * 3
      /\ e.outputCost = e.outputTokens * 15
      /\ e.totalCost = e.inputCost + e.outputCost
      /\ e.savedTokens = e.origTokens - e.optTokens
      /\ e.savedCost = e.savedTokens * 3

\* C10 witness: a record with billed tokens whose optimization lost tokens
C10_Witness ==
  /\ OptimizeSucceeded
  /\ \E i \in 1..Len(sessionStats.items) :
       /\ sessionStats.items[i].savedTokens < 0
       /\ sessionStats.items[i].savedCost < 0
       /\ sessionStats.items[i].totalCost > 0

\* C11: the cumulative-cost series of a history of N records has N points,
\* each point is the previous one plus the total cost of its record (the
\* first is the first record's total cost), so point i is the sum over
\* records 0..i; it never decreases when no total cost is negative, and
\* its last value is the session total cost.
C11_CumulativeSeries ==
  sessionStats.kind = "array" =>
    LET items == sessionStats.items
        N == Len(items)
        g == usageGraphData(items)
    IN /\ Len(g) = N
       /\ \A k \in 1..N :
            /\ g[k].x = k
            /\ g[k].y = (IF k = 1 THEN 0 ELSE g[k - 1].y) + items[k].totalCost
       /\ (\A k \in 1..N : items[k].totalCost >= 0) =>
            \A k \in 2..N : g[k - 1].y <= g[k].y
       /\ N > 0 => g[N].y = sessionTotalCost(items)

\* C11 witness: a history of at least two records that cost something
C11_Witness ==
  /\ sessionStats.kind = "array"
  /\ Len(sessionStats.items) >= 2
  /\ sessionStats.items[1].totalCost > 0
  /\ sessionStats.items[2].totalCost > 0
  /\ usageGraphData(sessionStats.items)[2].y
       > usageGraphData(sessionStats.items)[1].y

\* C12: while the prompt is empty the displayed count is cleared, no timer
\* is pending, and no count request is issued for the empty text, whatever
\* responses for earlier text arrive.
C12_EmptyPromptStaysCleared ==
  (Running /\ prompt = <<>>) =>
    /\ origTokens = Null
    /\ timers = {}
    /\ \A r \in liveReqs : r.text # <<>>
    /\ lastLive.text # <<>> \/ lastLive.id = 0

\* C14: in a successful Optimize Prompt response that reports
\* usage.input_tokens as originalTokens, savings = originalTokens -
\* optimizedTokens, whether the follow-up counts were answered by the
\* remote API or by the fallback.
C14_SavingsIsDifference ==
  (relay.pc = "done" /\ relay.path = "optimize_prompt"
     /\ relay.resp.status = 200 /\ relay.resp.originalTokens # Undefined)
    => /\ relay.resp.originalTokens = relay.usage.input_tokens
       /\ relay.resp.savings
            = relay.resp.originalTokens - relay.resp.optimizedTokens

\* C13: the original token count stored in an appended record is the
\* result of a count request for that record's own prompt text, also when
\* optimize is triggered after an edit and before the debounced count of
\* the new text has been applied.
C13_CountIsForRecordPrompt ==
  OptimizeSucceeded =>
    lastOp.text = sessionStats.items[Len(sessionStats.items)].prompt

====
